---- MODULE Spec2Model ----
(***************************************************************************)
(* lanzatool: ESP path derivation (esp.rs), generation naming              *)
(* (generation.rs) and the mark-and-sweep garbage collector (gc.rs).       *)
(*                                                                         *)
(* A path is the sequence of its components below the directory that is    *)
(* swept (PathBuf compares component-wise); << >> is that directory.       *)
(* The file system is the pair (files, dirs) of existing paths.            *)
(***************************************************************************)
EXTENDS Naturals, Sequences, FiniteSets, TLC

VARIABLES
    files,        \* existing regular files
    dirs,         \* existing directories
    undeletable,  \* entries whose unlink/rmdir the file system refuses
    roots,        \* Roots.0: the protected set
    pc,           \* position of collect_garbage
    start,        \* walkdir IntoIter.start: the root has not been yielded yet
    stack,        \* walkdir IntoIter.stack_list: open directory handles
    rmstack,      \* directories fs::remove_dir_all is currently inside of
    phase,        \* "first" call, "resumed" after a kill, "repeat" after Ok
    files0,       \* history: files before the first call
    dirs0,        \* history: directories before the first call
    filesAt,      \* history: files when the current call began
    dirsAt,       \* history: directories when the current call began
    reported,     \* history: entries the loop body ran for in this call
    attempted,    \* history: entries one removal was attempted on in this call
    reattempted,  \* history: entries a second removal was attempted on
    swallowed,    \* history: remove_file failures dropped by .ok()
    purged,       \* history: directories remove_dir_all finished on in this call
    err,          \* history: what made the call return Err
    genA,         \* a generation (generation.rs Generation)
    genB,         \* another generation
    kept,         \* which of the two are kept: their EspPaths go into Roots
    outA,         \* EspPaths::new(esp, genA)
    outB          \* EspPaths::new(esp, genB)

vars == <<files, dirs, undeletable, roots, pc, start, stack, rmstack, phase,
          files0, dirs0, filesAt, dirsAt, reported, attempted, reattempted,
          swallowed, purged, err, genA, genB, kept, outA, outB>>

fsVars == <<files, dirs>>
histVars == <<reported, attempted, reattempted, swallowed, purged>>
frozenVars == <<undeletable, roots, files0, dirs0, genA, genB, kept, outA, outB>>

-----------------------------------------------------------------------------
(* Bounds *)

\* number of distinct paths (breadth-first over a binary tree) a swept tree may use
MaxPaths == 5
\* number of entries whose removal the file system refuses
MaxUndeletable == 1

Names == {"a", "b"}

-----------------------------------------------------------------------------
(* Paths *)

rootDir == << >>

Parent(p) == SubSeq(p, 1, Len(p) - 1)

\* a is a proper ancestor of p
Above(a, p) == Len(a) < Len(p) /\ SubSeq(p, 1, Len(a)) = a

Exists(p) == p \in files \cup dirs

\* what a read of directory d returns: its entries with their d_type
Entries(d) ==
    {[path |-> q, dir |-> q \in dirs] : q \in {x \in files \cup dirs : Len(x) = Len(d) + 1 /\ Above(d, x)}}

RECURSIVE Idx(_)
Idx(p) ==
    IF p = << >> THEN 1
    ELSE 2 * Idx(Parent(p)) + (IF p[Len(p)] = "a" THEN 0 ELSE 1)

Universe == {p \in UNION {[1..n -> Names] : n \in 0..MaxPaths} : Idx(p) <= MaxPaths}

\* a well-formed tree: every entry's parent is a directory, nothing is both
IsTree(F, D) ==
    /\ F \cap D = {}
    /\ \A p \in F \cup D : p # rootDir => Parent(p) \in D
    /\ rootDir \notin F

-----------------------------------------------------------------------------
(* Roots *)

\* in_use that only knows directories
InUseDirsOnly(p) == p \in roots /\ p \in dirs

\* in_use that also holds a directory with entries to be in use
InUseNonEmpty(p) == p \in roots \/ Entries(p) # {}

\* Roots::in_use for an Ok entry: exact path membership
InUse(p) == p \in roots

-----------------------------------------------------------------------------
(* walkdir: the directory handle pushed when a directory entry is handled. *)
(* The handle is opened before the entry is yielded and read lazily, on    *)
(* the iterator's next call.                                               *)

\* a handle that reads the whole directory when it is opened
OpenDirEager(p) ==
    [dir |-> p, listed |-> TRUE, pending |-> Entries(p), err |-> p \notin dirs]

OpenDir(p) ==
    [dir |-> p, listed |-> FALSE, pending |-> {}, err |-> p \notin dirs]

Top == stack[Len(stack)]

\* the entries the handle still has to return; the first read fills its buffer
Listing(h) == IF h.listed THEN h.pending ELSE Entries(h.dir)

-----------------------------------------------------------------------------
(* collect_garbage *)

NoteAttempt(p) ==
    /\ attempted' = attempted \cup {p}
    /\ reattempted' = IF p \in attempted THEN reattempted \cup {p} ELSE reattempted

\* fs::remove_file(path).ok()
RemoveFileOk(p) ==
    /\ NoteAttempt(p)
    /\ IF p \in files /\ p \notin undeletable
       THEN /\ files' = files \ {p}
            /\ UNCHANGED swallowed
       ELSE /\ UNCHANGED files
            /\ swallowed' = swallowed \cup {[path |-> p, gone |-> ~Exists(p)]}
    /\ pc' = "walk"
    /\ UNCHANGED <<dirs, rmstack, purged, err>>

\* a loop body that leaves directories alone
BodyFilesOnly(p) ==
    /\ reported' = reported \cup {p}
    /\ IF p \in dirs
       THEN /\ pc' = "walk"
            /\ UNCHANGED <<files, dirs, rmstack, attempted, reattempted, swallowed, purged, err>>
       ELSE RemoveFileOk(p)

\* the loop body, run for an entry that passed the filter
Body(p) ==
    /\ reported' = reported \cup {p}
    /\ IF p \in dirs
       THEN /\ pc' = "rmdir"
            /\ rmstack' = <<p>>
            /\ UNCHANGED <<files, dirs, attempted, reattempted, swallowed, purged, err>>
       ELSE RemoveFileOk(p)

\* IntoIter::handle_entry, then the filter and the body
Deliver(e, stk) ==
    /\ stack' = IF e.dir THEN Append(stk, OpenDir(e.path)) ELSE stk
    /\ start' = FALSE
    /\ IF InUse(e.path)
       THEN /\ pc' = "walk"
            /\ UNCHANGED <<fsVars, rmstack, histVars, err>>
       ELSE Body(e.path)
    /\ UNCHANGED <<frozenVars, phase, filesAt, dirsAt>>

\* collect_garbage is called: WalkDir::new(directory).into_iter()
Call ==
    /\ pc = "idle"
    /\ pc' = "walk"
    /\ start' = TRUE
    /\ stack' = << >>
    /\ UNCHANGED <<fsVars, frozenVars, rmstack, phase, filesAt, dirsAt, histVars, err>>

\* first next(): DirEntry::from_path(root) succeeded
VisitRoot ==
    /\ pc = "walk" /\ start
    /\ Exists(rootDir)
    /\ Deliver([path |-> rootDir, dir |-> rootDir \in dirs], stack)

\* next(): the top handle returns an entry
VisitEntry ==
    /\ pc = "walk" /\ ~start
    /\ stack # << >>
    /\ ~Top.err
    /\ \E e \in Listing(Top) :
          Deliver(e, [stack EXCEPT ![Len(stack)] =
                        [Top EXCEPT !.listed = TRUE, !.pending = Listing(Top) \ {e}]])

\* next(): the top handle is exhausted and popped
PopDir ==
    /\ pc = "walk" /\ ~start
    /\ stack # << >>
    /\ ~Top.err
    /\ Listing(Top) = {}
    /\ stack' = SubSeq(stack, 1, Len(stack) - 1)
    /\ UNCHANGED <<fsVars, frozenVars, pc, start, rmstack, phase, filesAt, dirsAt, histVars, err>>

\* next() yields Err (the root cannot be stat'ed, or the top handle could not
\* be opened); the Err passes the filter and e? returns it
WalkError ==
    /\ pc = "walk"
    /\ IF start THEN ~Exists(rootDir) ELSE stack # << >> /\ Top.err
    /\ pc' = "failed"
    /\ err' = [kind |-> "walk", path |-> IF start THEN rootDir ELSE Top.dir]
    /\ start' = FALSE
    /\ UNCHANGED <<fsVars, frozenVars, stack, rmstack, phase, filesAt, dirsAt, histVars>>

\* next() returns None: Ok(())
WalkEnd ==
    /\ pc = "walk" /\ ~start
    /\ stack = << >>
    /\ pc' = "done"
    /\ UNCHANGED <<fsVars, frozenVars, start, stack, rmstack, phase, filesAt, dirsAt, histVars, err>>

-----------------------------------------------------------------------------
(* fs::remove_dir_all: depth first, children in directory order *)

RmTop == rmstack[Len(rmstack)]

\* a child directory is entered
RmDescend ==
    /\ pc = "rmdir"
    /\ \E e \in Entries(RmTop) :
          /\ e.dir
          /\ rmstack' = Append(rmstack, e.path)
    /\ UNCHANGED <<fsVars, frozenVars, pc, start, stack, phase, filesAt, dirsAt, histVars, err>>

\* a child file is unlinked; a refusal ends the call with the error
RmUnlink ==
    /\ pc = "rmdir"
    /\ \E e \in Entries(RmTop) :
          /\ ~e.dir
          /\ NoteAttempt(e.path)
          /\ IF e.path \in undeletable
             THEN /\ pc' = "failed"
                  /\ err' = [kind |-> "remove_dir_all", path |-> e.path]
                  /\ UNCHANGED files
             ELSE /\ files' = files \ {e.path}
                  /\ UNCHANGED <<pc, err>>
    /\ UNCHANGED <<dirs, frozenVars, start, stack, rmstack, phase, filesAt, dirsAt,
                   reported, swallowed, purged>>

\* the emptied directory is removed; the outermost one ends remove_dir_all
RmRmdir ==
    /\ pc = "rmdir"
    /\ Entries(RmTop) = {}
    /\ NoteAttempt(RmTop)
    /\ IF RmTop \in undeletable
       THEN /\ pc' = "failed"
            /\ err' = [kind |-> "remove_dir_all", path |-> RmTop]
            /\ UNCHANGED <<dirs, rmstack, purged>>
       ELSE /\ dirs' = dirs \ {RmTop}
            /\ rmstack' = SubSeq(rmstack, 1, Len(rmstack) - 1)
            /\ pc' = IF Len(rmstack) = 1 THEN "walk" ELSE "rmdir"
            /\ purged' = IF Len(rmstack) = 1 THEN purged \cup {RmTop} ELSE purged
            /\ UNCHANGED err
    /\ UNCHANGED <<files, frozenVars, start, stack, phase, filesAt, dirsAt,
                   reported, swallowed>>

-----------------------------------------------------------------------------
(* The process around the call *)

\* the process is killed in the middle of a sweep
Interrupt ==
    /\ pc \in {"walk", "rmdir"}
    /\ phase = "first"
    /\ pc' = "killed"
    /\ UNCHANGED <<fsVars, frozenVars, start, stack, rmstack, phase, filesAt, dirsAt, histVars, err>>

Again(ph) ==
    /\ phase' = ph
    /\ pc' = "idle"
    /\ start' = FALSE
    /\ stack' = << >>
    /\ rmstack' = << >>
    /\ filesAt' = files
    /\ dirsAt' = dirs
    /\ reported' = {}
    /\ attempted' = {}
    /\ reattempted' = {}
    /\ swallowed' = {}
    /\ purged' = {}
    /\ UNCHANGED <<fsVars, frozenVars, err>>

\* collect_garbage is run again from the start after a kill
Resume == pc = "killed" /\ phase = "first" /\ Again("resumed")

\* collect_garbage is run a second time after it returned Ok
Repeat == pc = "done" /\ phase = "first" /\ Again("repeat")

Sweep ==
    \/ Call \/ VisitRoot \/ VisitEntry \/ PopDir \/ WalkError \/ WalkEnd
    \/ RmDescend \/ RmUnlink \/ RmRmdir

-----------------------------------------------------------------------------
(* Strings are sequences of characters; a Path is its components, each a   *)
(* string, with a flag for a leading "/".                                  *)

cNix == <<"n","i","x">>
cStore == <<"s","t","o","r","e">>
cEFI == <<"E","F","I">>
cNixos == <<"n","i","x","o","s">>
cLinux == <<"L","i","n","u","x">>
cSystemd == <<"s","y","s","t","e","m","d">>
cBOOT == <<"B","O","O","T">>
cBootx64 == <<"B","O","O","T","X","6","4",".","E","F","I">>
cSystemdBoot == <<"s","y","s","t","e","m","d","-","b","o","o","t","x","6","4",".","e","f","i">>
cBzImage == <<"b","z","I","m","a","g","e">>
cInitrd == <<"i","n","i","t","r","d">>
cDotEfi == <<".","e","f","i">>
cNixosGeneration == <<"n","i","x","o","s","-","g","e","n","e","r","a","t","i","o","n","-">>
cSpecialisation == <<"-","s","p","e","c","i","a","l","i","s","a","t","i","o","n","-">>
cBoot == <<"b","o","o","t">>
cRun == <<"r","u","n">>

None == [some |-> FALSE]
Some(v) == [some |-> TRUE, val |-> v]

Digits == <<"0","1","2","3","4","5","6","7","8","9">>

\* u64 as Display prints it
RECURSIVE Dec(_)
Dec(n) == IF n < 10 THEN <<Digits[n + 1]>> ELSE Dec(n \div 10) \o <<Digits[(n % 10) + 1]>>

\* the components of a string, cut at "/" (empty pieces included)
RECURSIVE Pieces(_, _)
Pieces(s, cur) ==
    IF s = << >> THEN <<cur>>
    ELSE IF Head(s) = "/" THEN <<cur>> \o Pieces(Tail(s), << >>)
    ELSE Pieces(Tail(s), Append(cur, Head(s)))

RECURSIVE KeepNormal(_, _)
KeepNormal(ps, first) ==
    IF ps = << >> THEN << >>
    ELSE IF Head(ps) = << >> \/ (Head(ps) = <<".">> /\ ~first)
         THEN KeepNormal(Tail(ps), FALSE)
         ELSE <<Head(ps)>> \o KeepNormal(Tail(ps), FALSE)

\* PathBuf::from(String), as Path::components reads it: repeated separators and
\* inner "." components vanish
PathFrom(s) ==
    LET abs == s # << >> /\ Head(s) = "/"
    IN [abs |-> abs, comps |-> KeepNormal(Pieces(s, << >>), ~abs)]

RECURSIVE JoinWith(_, _)
JoinWith(cs, sep) ==
    IF cs = << >> THEN << >>
    ELSE IF Len(cs) = 1 THEN cs[1]
    ELSE cs[1] \o sep \o JoinWith(Tail(cs), sep)

\* Path::display
Display(p) == (IF p.abs THEN <<"/">> ELSE << >>) \o JoinWith(p.comps, <<"/">>)

\* Path::join
Join(base, p) == IF p.abs THEN p ELSE [abs |-> base.abs, comps |-> base.comps \o p.comps]

StorePrefix == [abs |-> TRUE, comps |-> <<cNix, cStore>>]

\* Path::strip_prefix
StripPrefix(p, prefix) ==
    IF /\ p.abs = prefix.abs
       /\ Len(p.comps) >= Len(prefix.comps)
       /\ SubSeq(p.comps, 1, Len(prefix.comps)) = prefix.comps
    THEN Some([abs |-> FALSE, comps |-> SubSeq(p.comps, Len(prefix.comps) + 1, Len(p.comps))])
    ELSE None

\* Path::parent
PathParent(p) ==
    IF p.comps = << >> THEN None
    ELSE Some([abs |-> p.abs, comps |-> SubSeq(p.comps, 1, Len(p.comps) - 1)])

Fail(why) == [ok |-> FALSE, why |-> why]

\* nixos_path that names the file after the last directory of the suffix only
NixosPathLastOnly(art, name) ==
    LET resolved == IF art.link.some THEN art.link.val ELSE art.path
        parent == PathParent(resolved)
    IN IF ~parent.some THEN Fail("no parent")
       ELSE LET without_store == StripPrefix(parent.val, StorePrefix)
            IN IF ~without_store.some THEN Fail("not in store")
               ELSE LET cs == without_store.val.comps
                        last == [abs |-> FALSE,
                                 comps |-> IF cs = << >> THEN << >> ELSE <<cs[Len(cs)]>>]
                    IN [ok |-> TRUE,
                        val |-> PathFrom(Display(last) \o <<"-">> \o name \o cDotEfi)]

\* esp.rs nixos_path; an artifact is its path and what read_link returns for it
NixosPath(art, name) ==
    LET resolved == IF art.link.some THEN art.link.val ELSE art.path
        parent == PathParent(resolved)
    IN IF ~parent.some THEN Fail("no parent")
       ELSE LET without_store == StripPrefix(parent.val, StorePrefix)
            IN IF ~without_store.some THEN Fail("not in store")
               ELSE [ok |-> TRUE,
                     val |-> PathFrom(Display(without_store.val) \o <<"-">> \o name \o cDotEfi)]

\* generation.rs Display for Generation
GenerationDisplay(g) == Dec(g.version)

\* generation.rs Generation::is_specialized
IsSpecialized(g) == g.specialisation_name

\* generation_path that forgets the specialisation
GenerationPathNoName(g) ==
    PathFrom(cNixosGeneration \o GenerationDisplay(g) \o cDotEfi)

\* esp.rs generation_path
GenerationPath(g) ==
    IF IsSpecialized(g).some
    THEN PathFrom(cNixosGeneration \o GenerationDisplay(g) \o cSpecialisation
                  \o IsSpecialized(g).val \o cDotEfi)
    ELSE PathFrom(cNixosGeneration \o GenerationDisplay(g) \o cDotEfi)

\* the swept directory is the ESP: esp is the empty path below it
Esp == [abs |-> FALSE, comps |-> << >>]
Lit(c) == [abs |-> FALSE, comps |-> <<c>>]

\* esp.rs EspPaths::new
EspPathsNew(g) ==
    LET efi == Join(Esp, Lit(cEFI))
        efi_nixos == Join(efi, Lit(cNixos))
        efi_linux == Join(efi, Lit(cLinux))
        efi_systemd == Join(efi, Lit(cSystemd))
        efi_efi_fallback_dir == Join(efi, Lit(cBOOT))
        k == NixosPath(g.kernel, cBzImage)
    IN IF ~k.ok THEN k
       ELSE IF ~g.initrd.some THEN Fail("missing initrd")
       ELSE LET i == NixosPath(g.initrd.val, cInitrd)
            IN IF ~i.ok THEN i
               ELSE [ok |-> TRUE,
                     esp |-> Esp.comps,
                     efi |-> efi.comps,
                     nixos |-> efi_nixos.comps,
                     kernel |-> Join(efi_nixos, k.val).comps,
                     initrd |-> Join(efi_nixos, i.val).comps,
                     linux |-> efi_linux.comps,
                     lanzaboote_image |-> Join(efi_linux, GenerationPath(g)).comps,
                     efi_fallback_dir |-> efi_efi_fallback_dir.comps,
                     efi_fallback |-> Join(efi_efi_fallback_dir, Lit(cBootx64)).comps,
                     systemd |-> efi_systemd.comps,
                     systemd_boot |-> Join(efi_systemd, Lit(cSystemdBoot)).comps]

\* esp.rs EspPaths::to_iter
ToIter(e) ==
    {e.esp, e.efi, e.nixos, e.kernel, e.initrd, e.linux, e.lanzaboote_image,
     e.efi_fallback_dir, e.efi_fallback, e.systemd, e.systemd_boot}

\* the five files of a generation on the ESP
EspFiles(e) == {e.kernel, e.initrd, e.lanzaboote_image, e.efi_fallback, e.systemd_boot}

\* every proper ancestor of p, the swept directory included
Ancestors(p) == {SubSeq(p, 1, n) : n \in 0..(Len(p) - 1)}

NoGeneration == [version |-> 0, specialisation_name |-> None,
                 kernel |-> [path |-> Esp, link |-> None], initrd |-> None]
NotDerived == Fail("not derived")

-----------------------------------------------------------------------------
(* Inputs *)

\* longest specialisation name, in characters
MaxNameLen == 1
\* deepest artifact directory below /nix/store
MaxSuffixLen == 2
\* largest generation version
MaxVersion == 11

ObjNames == {<<"k">>, <<"-">>}
SpecialisationNames == UNION {[1..k -> {"1", "s"}] : k \in 1..MaxNameLen}

Suffixes == UNION {[1..k -> ObjNames] : k \in 0..MaxSuffixLen}

InStore(suffix, file) == [abs |-> TRUE, comps |-> <<cNix, cStore>> \o suffix \o <<file>>]

Plain(p) == [path |-> p, link |-> None]
Link(p, target) == [path |-> p, link |-> Some(target)]

dirK == <<<<"k">>>>
dirKK == <<<<"k">>, <<"k">>>>
dirDash == <<<<"-">>>>

\* artifacts as a bootspec names them: a file in a store directory, a file
\* elsewhere, "/", a symlink into the store, a symlink with a relative target
Artifacts(file) ==
    {Plain(InStore(s, file)) : s \in Suffixes}
    \cup {Plain([abs |-> TRUE, comps |-> <<cBoot, file>>]),
          Plain([abs |-> TRUE, comps |-> << >>]),
          Link([abs |-> TRUE, comps |-> <<cRun, file>>], InStore(dirK, file)),
          Link(InStore(dirK, file), [abs |-> FALSE, comps |-> <<<<"k">>, file>>])}

Initrds ==
    {None, Some(Plain([abs |-> TRUE, comps |-> <<cBoot, cInitrd>>]))}
    \cup {Some(Plain(InStore(s, cInitrd))) : s \in {dirK, dirDash, dirKK}}

Generation(v, n, k, i) == [version |-> v, specialisation_name |-> n, kernel |-> k, initrd |-> i]

\* generations that differ in their artifacts, and generations that differ in
\* version and specialisation
NamePool ==
    {Generation(1, None, k, i) : k \in Artifacts(cBzImage), i \in Initrds}
    \cup {Generation(v, n, Plain(InStore(dirK, cBzImage)), Some(Plain(InStore(dirK, cInitrd)))) :
            v \in 0..MaxVersion, n \in {None} \cup {Some(x) : x \in SpecialisationNames}}

\* generations an ESP is installed from
EspPool ==
    {Generation(v, n, Plain(InStore(s, cBzImage)), Some(Plain(InStore(dirK, cInitrd)))) :
        v \in 1..2, n \in {None, Some(<<"s">>)}, s \in {dirK, dirKK}}

-----------------------------------------------------------------------------
(* Derivation and registration *)

\* EspPaths::new for both generations
Derive ==
    /\ pc = "new"
    /\ outA' = EspPathsNew(genA)
    /\ outB' = EspPathsNew(genB)
    /\ pc' = "derived"
    /\ UNCHANGED <<fsVars, undeletable, roots, start, stack, rmstack, phase, files0, dirs0,
                   filesAt, dirsAt, histVars, err, genA, genB, kept>>

\* the EspPaths of the kept generations (a generation whose EspPaths::new failed has none)
KeptPaths ==
    {o \in (IF "A" \in kept THEN {outA} ELSE {}) \cup (IF "B" \in kept THEN {outB} ELSE {}) : o.ok}

\* Roots::new, then Roots::extend with to_iter of every kept generation
Extend ==
    /\ pc = "derived"
    /\ roots' = UNION {ToIter(o) : o \in KeptPaths}
    /\ pc' = "idle"
    /\ UNCHANGED <<fsVars, undeletable, start, stack, rmstack, phase, files0, dirs0,
                   filesAt, dirsAt, histVars, err, genA, genB, kept, outA, outB>>

InitSweep ==
    /\ start = FALSE
    /\ stack = << >>
    /\ rmstack = << >>
    /\ phase = "first"
    /\ filesAt = files
    /\ dirsAt = dirs
    /\ files0 = files
    /\ dirs0 = dirs
    /\ reported = {}
    /\ attempted = {}
    /\ reattempted = {}
    /\ swallowed = {}
    /\ purged = {}
    /\ err = [kind |-> "none", path |-> rootDir]

\* any tree, any protected set
Init ==
    /\ dirs \in SUBSET Universe
    /\ files \in SUBSET (Universe \ dirs)
    /\ IsTree(files, dirs)
    /\ roots \in SUBSET Universe
    /\ undeletable \in {u \in SUBSET (files \cup dirs) : Cardinality(u) <= MaxUndeletable}
    /\ genA = NoGeneration
    /\ genB = NoGeneration
    /\ kept = {}
    /\ outA = NotDerived
    /\ outB = NotDerived
    /\ InitSweep
    /\ pc = "idle"

Next == Sweep \/ Interrupt \/ Resume \/ Repeat

Spec == Init /\ [][Next]_vars

\* two generations, their paths derived
InitNames ==
    /\ genA \in NamePool
    /\ genB \in NamePool
    /\ kept = {}
    /\ outA = NotDerived
    /\ outB = NotDerived
    /\ files = {}
    /\ dirs = {}
    /\ roots = {}
    /\ undeletable = {}
    /\ InitSweep
    /\ pc = "new"

NextNames == Derive

SpecNames == InitNames /\ [][NextNames]_vars

\* an ESP holding the files of some of two generations (none: nothing is there,
\* not even the ESP directory), some of the two kept
InitEsp ==
    /\ genA \in EspPool
    /\ genB \in EspPool
    /\ kept \in SUBSET {"A", "B"}
    /\ outA = NotDerived
    /\ outB = NotDerived
    /\ \E installed \in SUBSET {genA, genB} :
          /\ files = UNION {EspFiles(EspPathsNew(g)) : g \in installed}
          /\ dirs = UNION {Ancestors(f) : f \in files}
    /\ roots = {}
    /\ undeletable = {}
    /\ InitSweep
    /\ pc = "new"

NextEsp == Derive \/ Extend \/ Sweep

SpecEsp == InitEsp /\ [][NextEsp]_vars

-----------------------------------------------------------------------------
(* Properties *)

Before == filesAt \cup dirsAt
Now == files \cup dirs

\* every ancestor directory of p, from the swept directory down, is protected
Covered(p) == Ancestors(p) \subseteq roots

\* C1 as stated: when collect_garbage returns Ok, every protected path that
\* existed before the call still exists, however the protected paths are nested.
C1_RootsSurvive ==
    pc = "done" => \A p \in roots \cap Before : Exists(p)

\* C1 amended: when collect_garbage returns Ok, every protected path that existed
\* before the call and whose ancestor directories, from the swept directory down,
\* are all protected still exists.
C1_CoveredRootsSurvive ==
    pc = "done" => \A p \in roots \cap Before : Covered(p) => Exists(p)

\* a sweep returned Ok, deleted something and kept a protected entry below the root
C1_Witness ==
    /\ pc = "done"
    /\ Now # Before
    /\ \E p \in roots \cap Before : p # rootDir /\ Covered(p) /\ Exists(p)

\* C2: after the roots were extended with to_iter of every kept generation and
\* collect_garbage(esp) returned Ok, each of the five files of every kept
\* generation that was on the ESP before the sweep is still there.
C2_KeptGenerationsSurvive ==
    pc = "done" => \A o \in KeptPaths : \A f \in EspFiles(o) : f \in files0 => f \in files

\* C3: when collect_garbage returns Ok, no entry that existed before the call
\* and is not protected exists any more.
C3_UnprotectedGone ==
    pc = "done" => \A p \in Before \ roots : ~Exists(p)

\* C4: a second collect_garbage run right after one that returned Ok, with the
\* same protected set, deletes nothing: the tree stays as the first run left it.
C4_SecondRunNoOp ==
    phase = "repeat" => files = filesAt /\ dirs = dirsAt

\* a second run ended after a first run that deleted something
C4_Witness ==
    /\ phase = "repeat"
    /\ pc = "done"
    /\ files0 \cup dirs0 # Now
    /\ Now # {}

\* what one uninterrupted sweep that returns Ok leaves of the initial tree
SweptFiles == {f \in files0 : Covered(f) /\ (f \in roots \/ f \in undeletable)}
SweptDirs == {d \in dirs0 : Covered(d) /\ d \in roots}

\* C5 as stated, first half: in the tree an interrupted sweep leaves, no
\* protected path has been removed.
C5_KilledKeepsRoots ==
    pc = "killed" => \A p \in roots \cap (files0 \cup dirs0) : Exists(p)

\* C5 amended: in the tree an interrupted sweep leaves, no protected path whose
\* ancestor directories are all protected has been removed, and a run from the
\* start that returns Ok, whether or not a run before it was interrupted, ends in
\* the one tree an uninterrupted sweep produces (as does a run that finds the
\* swept directory already gone).
C5_SafeResumption ==
    /\ pc = "killed" => \A p \in roots \cap (files0 \cup dirs0) : Covered(p) => Exists(p)
    /\ (phase \in {"first", "resumed"} /\ (pc = "done" \/ (pc = "failed" /\ err.kind = "walk")))
          => files = SweptFiles /\ dirs = SweptDirs

\* a sweep was killed after it deleted something, and the run after it deleted the rest
C5_Witness ==
    /\ phase = "resumed"
    /\ pc = "done"
    /\ Before # files0 \cup dirs0
    /\ Now # Before
    /\ Now # {}

\* C6: the only failure that is dropped is the removal of a file that is gone
\* because an ancestor directory was removed earlier in the same sweep; every
\* other failure ends the call with an error.
C6_OnlyRaceSwallowed ==
    /\ \A s \in swallowed : s.gone /\ \E d \in purged : Above(d, s.path)
    /\ err.kind # "none" => pc = "failed"

\* the store-path suffix of an artifact: the parent of what it resolves to, below /nix/store
StoreSuffix(art) ==
    LET resolved == IF art.link.some THEN art.link.val ELSE art.path
    IN IF resolved.comps = << >> \/ ~resolved.abs \/ Len(resolved.comps) < 3
          \/ SubSeq(resolved.comps, 1, 2) # <<cNix, cStore>>
       THEN None
       ELSE Some(SubSeq(resolved.comps, 3, Len(resolved.comps) - 1))

\* the file "{suffix}-{label}.efi" below EFI/nixos, component by component
NixosFile(suffix, label) ==
    <<cEFI, cNixos>> \o
    (IF suffix = << >> THEN <<<<"-">> \o label \o cDotEfi>>
     ELSE SubSeq(suffix, 1, Len(suffix) - 1)
          \o <<suffix[Len(suffix)] \o <<"-">> \o label \o cDotEfi>>)

\* C7: two artifacts under /nix/store get the same ESP name for the same kind
\* label exactly when their store-path suffixes are equal; the name is
\* "{suffix}-{label}.efi" under EFI/nixos; an artifact whose parent is not under
\* /nix/store yields an error.
C7_NixosNaming ==
    pc = "derived" =>
        /\ (outA.ok /\ outB.ok) =>
              /\ (outA.kernel = outB.kernel)
                    <=> (StoreSuffix(genA.kernel) = StoreSuffix(genB.kernel))
              /\ (outA.initrd = outB.initrd)
                    <=> (StoreSuffix(genA.initrd.val) = StoreSuffix(genB.initrd.val))
        /\ outA.ok =>
              /\ outA.kernel = NixosFile(StoreSuffix(genA.kernel).val, cBzImage)
              /\ outA.initrd = NixosFile(StoreSuffix(genA.initrd.val).val, cInitrd)
        /\ ~StoreSuffix(genA.kernel).some => ~outA.ok
        /\ (genA.initrd.some /\ ~StoreSuffix(genA.initrd.val).some) => ~outA.ok

\* two generations name their kernel differently in the bootspec and share the ESP
\* file, and their initrds are two ESP files
C7_Witness ==
    /\ pc = "derived"
    /\ outA.ok /\ outB.ok
    /\ genA.kernel # genB.kernel
    /\ outA.kernel = outB.kernel
    /\ outA.initrd # outB.initrd
    /\ Len(outA.initrd) > 3

C10_Exactness ==
    pc = "done" =>
        /\ (rootDir \in roots /\ \A p \in roots : Covered(p)) => Now = roots \cap Before
        /\ \A p \in roots \cap Before : ~Covered(p) => ~Exists(p)


====
